---- MODULE Spec2Model ----
(***************************************************************************)
(* marble_octomap_merger: the OctomapMerger node.                          *)
(*                                                                         *)
(* An octree is modelled at the level the code reads and writes it: a      *)
(* function from the node keys that exist (leaf keys at full depth, the    *)
(* trees are expanded before they are iterated) to the log-odds value of   *)
(* the node.  The stamped tree adds the node's timestamp.  expand() and    *)
(* prune() change the shape of a tree but not what search() returns at a   *)
(* leaf key, so they are the identity on this representation.              *)
(***************************************************************************)
EXTENDS Integers, Sequences, FiniteSets, TLC

\* ---------------------------------------------------------------- bounds
MaxKey == 2
MaxLogOdds == 2
MaxSeq == 1
MaxOwner == 2
MaxBatch == 2
MaxThresh == 1
MaxDiffs == 2

Keys == 1..MaxKey
LogOdds == 0..MaxLogOdds
Seqs == 0..MaxSeq
Owners == 1..MaxOwner

\* ------------------------------------------------------------ data types
\* octomap::OcTree: the existing leaf keys and their log-odds
OcTree == UNION {[S -> LogOdds] : S \in SUBSET Keys}

\* octomap::OcTreeNodeStamped: log-odds and timestamp (0 or 1 in this node)
OcTreeNodeStamped == [value : LogOdds, timestamp : 0..1]

\* octomap::OcTreeStamped
OcTreeStamped == UNION {[S -> OcTreeNodeStamped] : S \in SUBSET Keys}

\* new octomap::OcTree(resolution) / tree->clear(): a tree with no node
EmptyTree == <<>>

\* OcTreeNode::getOccupancy(): probability(log-odds), monotone and, in
\* floating point, saturating at the top of the range
SatLogOdds == MaxLogOdds - 1
getOccupancy(logodds) == IF logodds >= SatLogOdds THEN SatLogOdds ELSE logodds

\* octomap_msgs::Octomap as this node reads it: whether the codec can
\* decode it, and the tree it then decodes to.  The default-constructed
\* message decodes to NULL.
OctomapMsgs == [valid : {TRUE}, data : OcTree] \cup {[valid |-> FALSE, data |-> EmptyTree]}
DefaultMsg == [valid |-> FALSE, data |-> EmptyTree]

\* binaryMsgToMap / fullMsgToMap: NULL (here: null |-> TRUE) when the
\* message cannot be decoded
msgToMap(msg) == [null |-> ~msg.valid, tree |-> msg.data]

Min(S) == CHOOSE x \in S : \A y \in S : x <= y
Max(S) == CHOOSE x \in S : \A y \in S : x >= y

\* OccupancyOcTreeBase::setNodeValue on a plain tree
setNodeValue(tree, key, logodds) ==
  [k \in (DOMAIN tree) \cup {key} |-> IF k = key THEN logodds ELSE tree[k]]

\* setNodeValue followed by setTimestamp on the stamped tree
setNodeStamped(tree, key, logodds, ts) ==
  [k \in (DOMAIN tree) \cup {key} |->
     IF k = key THEN [value |-> logodds, timestamp |-> ts] ELSE tree[k]]

\* ------------------------------------------------------ build_diff_tree
\* (differs, comparing the log-odds themselves)
differs_logodds(logodds1, logodds2) == logodds1 # logodds2

\* nodeIn1->getOccupancy() != it->getOccupancy()
differs(logodds1, logodds2) == getOccupancy(logodds1) # getOccupancy(logodds2)

\* The leaf loop of build_diff_tree over the leaves of tree2 still to visit;
\* acc is [tree_diff, num_new_nodes].
RECURSIVE build_diff_leafs(_, _, _, _)
build_diff_leafs(tree1, tree2, leafs, acc) ==
  IF leafs = {} THEN acc
  ELSE LET nodeKey == Min(leafs)
           rest == leafs \ {nodeKey}
       IN IF nodeKey \in DOMAIN tree1
          THEN IF differs(tree1[nodeKey], tree2[nodeKey])
               THEN build_diff_leafs(tree1, tree2, rest,
                      [acc EXCEPT !.tree_diff = setNodeValue(@, nodeKey, tree2[nodeKey])])
               ELSE build_diff_leafs(tree1, tree2, rest, acc)
          ELSE build_diff_leafs(tree1, tree2, rest,
                 [tree_diff |-> setNodeValue(acc.tree_diff, nodeKey, tree2[nodeKey]),
                  num_new_nodes |-> acc.num_new_nodes + 1])

\* (build_diff_tree, counting every leaf of tree2 as new)
build_diff_tree_countAll(tree1, tree2, tree_diff) ==
  [tree_diff |-> build_diff_leafs(tree1, tree2, DOMAIN tree2,
                   [tree_diff |-> tree_diff, num_new_nodes |-> 0]).tree_diff,
   num_new_nodes |-> Cardinality(DOMAIN tree2)]

\* double build_diff_tree(tree1, tree2, tree_diff): the diff tree after the
\* call and the returned number of new nodes
build_diff_tree(tree1, tree2, tree_diff) ==
  build_diff_leafs(tree1, tree2, DOMAIN tree2,
                   [tree_diff |-> tree_diff, num_new_nodes |-> 0])

\* ----------------------------------------------------------- merge_maps
\* (replaceNode, without the test of the timestamp)
replaceNode_anyTimestamp(replace, overwrite, timestamp) == replace \/ overwrite

\* (replaceNode, the timestamp tested for the other value)
replaceNode_claimed(replace, overwrite, timestamp) == replace \/ (overwrite /\ timestamp = 1)

\* replace || (overwrite && (nodeIn1->getTimestamp() == 0))
replaceNode(replace, overwrite, timestamp) == replace \/ (overwrite /\ timestamp = 0)

\* (stamp, marking no node as the owner's)
stamp_never(replace) == 0

\* int ts = replace ? 1 : 0
stamp(replace) == IF replace THEN 1 ELSE 0

\* The leaf loop of merge_maps over the leaves of tree2 still to visit.
RECURSIVE merge_leafs(_, _, _, _, _)
merge_leafs(tree1, tree2, leafs, replace, overwrite) ==
  IF leafs = {} THEN tree1
  ELSE LET nodeKey == Min(leafs)
           rest == leafs \ {nodeKey}
           ts == stamp(replace)
       IN IF nodeKey \in DOMAIN tree1
          THEN IF replaceNode(replace, overwrite, tree1[nodeKey].timestamp)
               THEN merge_leafs(setNodeStamped(tree1, nodeKey, tree2[nodeKey], ts),
                                tree2, rest, replace, overwrite)
               ELSE merge_leafs(tree1, tree2, rest, replace, overwrite)
          ELSE merge_leafs(setNodeStamped(tree1, nodeKey, tree2[nodeKey], ts),
                           tree2, rest, replace, overwrite)

\* (merge_maps, updating a node that exists with the log-odds of tree2 added
\* to its own, as updateNode does, where it should not touch the node)
merge_maps_update(tree1, tree2, replace, overwrite) ==
  [k \in (DOMAIN tree1) \cup (DOMAIN tree2) |->
     IF k \notin DOMAIN tree2 THEN tree1[k]
     ELSE IF k \notin DOMAIN tree1
          THEN [value |-> tree2[k], timestamp |-> stamp(replace)]
          ELSE IF replaceNode(replace, overwrite, tree1[k].timestamp)
               THEN [value |-> tree2[k], timestamp |-> stamp(replace)]
               ELSE [value |-> IF tree1[k].value + tree2[k] > MaxLogOdds
                               THEN MaxLogOdds ELSE tree1[k].value + tree2[k],
                     timestamp |-> tree1[k].timestamp]]

\* (merge_maps, leaving in tree1 the nodes of tree2 alone)
merge_maps_swap(tree1, tree2, replace, overwrite) ==
  [k \in DOMAIN tree2 |-> [value |-> tree2[k], timestamp |-> stamp(replace)]]

\* void merge_maps(tree1, tree2, replace, overwrite): tree1 after the call
merge_maps(tree1, tree2, replace, overwrite) ==
  merge_leafs(tree1, tree2, DOMAIN tree2, replace, overwrite)

\* ------------------------------------------------------------- messages
SeqsUpTo(S, n) == UNION {[1..m -> S] : m \in 0..n}

\* What the neighbors have published: the diff of sequence seq of neighbor
\* owner is one fixed tree, the same on every delivery.  Later diffs of a
\* neighbor hold more nodes, and the values are such that the diffs of one
\* neighbor, and of different neighbors, disagree on a key.  The diff of
\* sequence 1 of the last neighbor cannot be decoded.
NeighborDiff(owner, seq) ==
  IF owner = MaxOwner /\ seq = 1
  THEN [seq |-> seq, valid |-> FALSE, data |-> EmptyTree]
  ELSE [seq |-> seq, valid |-> TRUE,
        data |-> [k \in {x \in Keys : x <= owner + seq} |->
                    (owner + seq + k) % (SatLogOdds + 1)]]

\* marble_octomap_merger::OctomapArray of one neighbor (num_octomaps is the
\* length of octomaps): the diffs of the sequences q, in the order of q
NeighborArray(owner, q) ==
  [owner |-> owner, octomaps |-> [x \in DOMAIN q |-> NeighborDiff(owner, q[x])]]

\* The batches delivered: one to MaxBatch diffs of different sequences, in any
\* order (a sequence comes again with a later message)
Batches == {q \in SeqsUpTo(Seqs, MaxBatch) :
              /\ q # <<>>
              /\ \A x, y \in DOMAIN q : x # y => q[x] # q[y]}

NeighborArrays == {NeighborArray(o, q) : o \in Owners, q \in Batches}

RECURSIVE TotalDiffs(_)
TotalDiffs(ns) == IF ns = <<>> THEN 0 ELSE Len(Head(ns).octomaps) + TotalDiffs(Tail(ns))

\* marble_octomap_merger::OctomapNeighbors (num_neighbors is the length of
\* neighbors): each neighbor at most once, at most MaxBatch diffs in all
NeighborMsgs ==
  {ns \in SeqsUpTo(NeighborArrays, MaxOwner) :
     /\ TotalDiffs(ns) <= MaxBatch
     /\ \A x, y \in DOMAIN ns : x # y => ns[x].owner # ns[y].owner}

\* The own map arrives with log-odds inside the clamping range.
OwnMsgs == {m \in OctomapMsgs : \A k \in DOMAIN m.data : m.data[k] <= SatLogOdds}

\* ---------------------------------------------------------------- state
VARIABLES
  type,          \* "robot" or "base"
  map_thresh,    \* mapThresh parameter
  myMapNew, otherMapsNew,
  myMap,         \* latest own map message
  neighbors,     \* latest neighbors message (its neighbors array)
  tree_merged, tree_old, tree_diff,
  num_diffs,
  mapdiffs,      \* [octomaps, num_octomaps]: the outbound array
  seqs,          \* per neighbor, the sequences recorded, in push_back order
  pub_mapdiffs, pub_size, pub_merged,   \* latched topics: <<>> or <<last message>>
  pc,            \* "spin": in the main loop; "neighbors": in merge()'s neighbor loops; "crashed"
  i, j,          \* loop indices of merge(), 1-based
  applied,       \* history: per neighbor, the merge_maps calls made for its diffs
  call           \* arguments and result of a function called on its own

vars == <<type, map_thresh, myMapNew, otherMapsNew, myMap, neighbors, tree_merged,
          tree_old, tree_diff, num_diffs, mapdiffs, seqs, pub_mapdiffs, pub_size,
          pub_merged, pc, i, j, applied, call>>

config == <<type, map_thresh>>
own == <<tree_old, tree_diff, num_diffs, mapdiffs, pub_mapdiffs, pub_size>>

NoCall == [op |-> "none"]

Types == {"robot", "base"}
Thresholds == 0..MaxThresh

\* OctomapMerger::OctomapMerger
Constructed ==
  /\ myMapNew = FALSE /\ otherMapsNew = FALSE
  /\ myMap = DefaultMsg
  /\ neighbors = <<>>
  /\ tree_merged = EmptyTree /\ tree_old = EmptyTree /\ tree_diff = EmptyTree
  /\ num_diffs = 0
  /\ mapdiffs = [octomaps |-> <<>>, num_octomaps |-> 0]
  /\ seqs = [n \in Owners |-> <<>>]
  /\ pub_mapdiffs = <<>> /\ pub_size = <<>> /\ pub_merged = <<>>
  /\ pc = "spin" /\ i = 1 /\ j = 1
  /\ applied = [n \in Owners |-> <<>>]

Init ==
  /\ type \in Types
  /\ map_thresh \in Thresholds
  /\ Constructed
  /\ call = NoCall

\* ------------------------------------------------------------ callbacks
\* Callbacks run inside ros::spinOnce() only.
\* (callback_myMap, run by a spinner thread at any time)
callback_myMap_anytime(msg) ==
  /\ myMap' = msg
  /\ myMapNew' = TRUE
  /\ UNCHANGED <<config, otherMapsNew, neighbors, tree_merged, own, seqs, pub_merged,
                 pc, i, j, applied, call>>

callback_myMap(msg) ==
  /\ pc = "spin"
  /\ myMap' = msg
  /\ myMapNew' = TRUE
  /\ UNCHANGED <<config, otherMapsNew, neighbors, tree_merged, own, seqs, pub_merged,
                 pc, i, j, applied, call>>

callback_neighborMaps(msg) ==
  /\ pc = "spin"
  /\ neighbors' = msg
  /\ otherMapsNew' = TRUE
  /\ UNCHANGED <<config, myMapNew, myMap, tree_merged, own, seqs, pub_merged,
                 pc, i, j, applied, call>>

\* --------------------------------------------------------------- merge()
Range(q) == {q[x] : x \in DOMAIN q}

\* What a call through a NULL tree pointer does (tree2->expand() and the leaf
\* loop that follows) is undefined: the process dies, or the loop finds no leaf.
NullDeref == {"crash", "noleaf"}

\* (enoughNewNodes, the threshold included)
enoughNewNodes_orEqual(num_nodes, thresh) == num_nodes >= thresh

\* num_nodes > map_thresh
enoughNewNodes(num_nodes, thresh) == num_nodes > thresh

\* (diffSeq, the count itself)
diffSeq_count(n) == n

\* msg.header.seq = num_diffs - 1, for num_diffs already incremented
diffSeq(n) == n - 1

\* (newData, the test left out)
newData_always(mine, others) == TRUE

\* if (octomap_merger->myMapNew || octomap_merger->otherMapsNew)
newData(mine, others) == mine \/ others

\* (abortCycle, for the other type)
abortCycle_base(null, agent) == null /\ agent = "base"

\* if (!tree_sys && (type == "robot")) return;
abortCycle(null, agent) == null /\ agent = "robot"

\* (clear, keeping the nodes)
clear_keep(tree) == tree

\* tree_diff->clear()
clear(tree) == EmptyTree

\* main(): a loop iteration whose flag test succeeds, and merge() up to the
\* neighbor loops: decode of the own map, build_diff_tree, the threshold
\* branch with its publications, tree_diff->clear().
MergeOwn ==
  /\ pc = "spin"
  /\ newData(myMapNew, otherMapsNew)
  /\ num_diffs < MaxDiffs
  /\ myMapNew' = FALSE
  /\ otherMapsNew' = FALSE
  /\ LET tree_sys == msgToMap(myMap) IN
     IF abortCycle(tree_sys.null, type)
     THEN \* return
          UNCHANGED <<config, myMap, neighbors, tree_merged, own, seqs, pub_merged,
                      pc, i, j, applied, call>>
     ELSE \E outcome \in (IF tree_sys.null THEN NullDeref ELSE {"defined"}) :
          IF outcome = "crash"
          THEN /\ pc' = "crashed"
               /\ UNCHANGED <<config, myMap, neighbors, tree_merged, own, seqs,
                              pub_merged, i, j, applied, call>>
          ELSE LET d == build_diff_tree(tree_old, tree_sys.tree, tree_diff) IN
               /\ IF enoughNewNodes(d.num_new_nodes, map_thresh)
                  THEN LET msg == [seq |-> diffSeq(num_diffs + 1), data |-> d.tree_diff]
                           arr == [octomaps |-> Append(mapdiffs.octomaps, msg),
                                   num_octomaps |-> num_diffs + 1]
                       IN /\ tree_old' = tree_sys.tree
                          /\ tree_merged' = merge_maps(tree_merged, d.tree_diff, TRUE, FALSE)
                          /\ num_diffs' = num_diffs + 1
                          /\ mapdiffs' = arr
                          /\ pub_mapdiffs' = <<arr>>
                          /\ pub_size' = <<num_diffs + 1>>
                  ELSE UNCHANGED <<tree_old, tree_merged, num_diffs, mapdiffs,
                                   pub_mapdiffs, pub_size>>
               /\ tree_diff' = clear(d.tree_diff)
               /\ pc' = "neighbors"
               /\ i' = 1
               /\ j' = 1
               /\ UNCHANGED <<config, myMap, neighbors, seqs, pub_merged, applied, call>>

\* (isLatest, strictly greater)
isLatest_strict(cur_seq, recorded) == cur_seq > Max(Range(recorded))

\* (isLatest, always)
isLatest_always(cur_seq, recorded) == TRUE

\* cur_seq >= *std::max_element(seqs[nid]), evaluated after the push_back
isLatest(cur_seq, recorded) == cur_seq >= Max(Range(recorded))

\* (exists, looking at the sequence recorded last only)
exists_last(recorded, cur_seq) == recorded # <<>> /\ recorded[Len(recorded)] = cur_seq

\* std::count(seqs[nid].cbegin(), seqs[nid].cend(), cur_seq)
exists(recorded, cur_seq) == cur_seq \in Range(recorded)

\* One pass of the inner loop body: the diff neighbors[i].octomaps[j].
MergeNeighborDiff ==
  /\ pc = "neighbors"
  /\ i <= Len(neighbors)
  /\ j <= Len(neighbors[i].octomaps)
  /\ LET nid == neighbors[i].owner
         m == neighbors[i].octomaps[j]
         cur_seq == m.seq
     IN IF exists(seqs[nid], cur_seq)
        THEN /\ j' = j + 1
             /\ UNCHANGED <<seqs, tree_merged, applied, pc>>
        ELSE LET recorded == Append(seqs[nid], cur_seq)
                 tree_temp == msgToMap(m)
                 overwrite_node == isLatest(cur_seq, recorded)
             IN /\ seqs' = [seqs EXCEPT ![nid] = recorded]
                /\ \E outcome \in (IF tree_temp.null THEN NullDeref ELSE {"defined"}) :
                   IF outcome = "crash"
                   THEN /\ pc' = "crashed"
                        /\ UNCHANGED <<tree_merged, applied, j>>
                   ELSE /\ tree_merged' =
                             merge_maps(tree_merged, tree_temp.tree, FALSE, overwrite_node)
                        /\ applied' = [applied EXCEPT ![nid] =
                             Append(@, [seq |-> cur_seq, overwrite |-> overwrite_node])]
                        /\ j' = j + 1
                        /\ pc' = pc
  /\ UNCHANGED <<config, myMapNew, otherMapsNew, myMap, neighbors, own, pub_merged, i, call>>

\* The outer loop: the inner loop of neighbor i is finished.
NextNeighbor ==
  /\ pc = "neighbors"
  /\ i <= Len(neighbors)
  /\ j > Len(neighbors[i].octomaps)
  /\ i' = i + 1
  /\ j' = 1
  /\ UNCHANGED <<config, myMapNew, otherMapsNew, myMap, neighbors, tree_merged, own,
                 seqs, pub_merged, pc, applied, call>>

\* binaryMapToMsg / fullMapToMsg of the merged tree with id "OcTree": the
\* nodes without their timestamps
mergedMsg(tree) == [k \in DOMAIN tree |-> tree[k].value]

\* After the loops: prune and publish the merged map, return to main().
PublishMerged ==
  /\ pc = "neighbors"
  /\ i > Len(neighbors)
  /\ pub_merged' = <<mergedMsg(tree_merged)>>
  /\ pc' = "spin"
  /\ i' = 1
  /\ j' = 1
  /\ UNCHANGED <<config, myMapNew, otherMapsNew, myMap, neighbors, tree_merged, own,
                 seqs, applied, call>>

\* main(): a loop iteration whose flag test fails
IdleTick ==
  /\ pc = "spin"
  /\ ~newData(myMapNew, otherMapsNew)
  /\ UNCHANGED vars

Next ==
  \/ \E msg \in OwnMsgs : callback_myMap(msg)
  \/ \E msg \in NeighborMsgs : callback_neighborMaps(msg)
  \/ MergeOwn
  \/ MergeNeighborDiff
  \/ NextNeighbor
  \/ PublishMerged
  \/ IdleTick

Spec == Init /\ [][Next]_vars

\* ------------------------------------------- the two functions on their own
\* merge_maps and build_diff_tree are free functions: here each is called on
\* arbitrary trees, the node at rest.
AtRest ==
  /\ type = "robot"
  /\ map_thresh = 0
  /\ Constructed

system == <<type, map_thresh, myMapNew, otherMapsNew, myMap, neighbors, tree_merged,
            tree_old, tree_diff, num_diffs, mapdiffs, seqs, pub_mapdiffs, pub_size,
            pub_merged, pc, i, j, applied>>

\* merge_maps(tree1, tree2, replace, overwrite), called MaxCalls times in a
\* row with the same tree2 and flags; before is tree1 as the last call found it
MaxCalls == 2

InitMerge ==
  /\ AtRest
  /\ call \in [op : {"merge_maps"}, tree1 : OcTreeStamped, tree2 : OcTree,
               replace : BOOLEAN, overwrite : BOOLEAN, calls : {0}, before : {EmptyTree}]

call_merge_maps ==
  /\ call.op = "merge_maps"
  /\ call.calls < MaxCalls
  /\ call' = [call EXCEPT
                !.before = call.tree1,
                !.tree1 = merge_maps(call.tree1, call.tree2, call.replace, call.overwrite),
                !.calls = @ + 1]
  /\ UNCHANGED system

SpecMerge == InitMerge /\ [][call_merge_maps]_vars

\* build_diff_tree(tree1, tree2, tree_diff) on an empty tree_diff
InitDiff ==
  /\ AtRest
  /\ call \in [op : {"build_diff_tree"}, tree1 : OcTree, tree2 : OcTree,
               tree_diff : {EmptyTree}, num_new_nodes : {0}, calls : {0}]

call_build_diff_tree ==
  /\ call.op = "build_diff_tree"
  /\ call.calls = 0
  /\ LET d == build_diff_tree(call.tree1, call.tree2, call.tree_diff)
     IN call' = [call EXCEPT !.tree_diff = d.tree_diff,
                             !.num_new_nodes = d.num_new_nodes,
                             !.calls = 1]
  /\ UNCHANGED system

SpecDiff == InitDiff /\ [][call_build_diff_tree]_vars

\* ================================================================ claims
\* --- merge_maps on its own (SpecMerge) ---

Called == call.op = "merge_maps" /\ call.calls >= 1
Conditional == ~call.replace /\ call.overwrite
AdditiveOnly == ~call.replace /\ ~call.overwrite

\* C4: a Conditional merge (replace = false, overwrite = true) leaves every
\* node of the destination whose timestamp is 1 as it was, value and
\* timestamp, also when the source holds the key.
C4_ConditionalKeepsClaimed ==
  (Called /\ Conditional) =>
    \A k \in DOMAIN call.before :
      call.before[k].timestamp = 1 =>
        k \in DOMAIN call.tree1 /\ call.tree1[k] = call.before[k]

\* a Conditional merge has run on a destination with a claimed node for which
\* the source holds another value
C4_Witness ==
  /\ Called /\ Conditional
  /\ \E k \in (DOMAIN call.before) \cap (DOMAIN call.tree2) :
       call.before[k].timestamp = 1 /\ call.before[k].value # call.tree2[k]

\* C5: after an Authoritative merge (replace = true) the destination holds,
\* at every key of the source, the source's value with timestamp 1, whatever
\* it held before; the other keys are as they were.
C5_AuthoritativeWins ==
  (Called /\ call.replace) =>
    /\ DOMAIN call.tree1 = (DOMAIN call.before) \cup (DOMAIN call.tree2)
    /\ \A k \in DOMAIN call.tree2 :
         call.tree1[k] = [value |-> call.tree2[k], timestamp |-> 1]
    /\ \A k \in (DOMAIN call.before) \ (DOMAIN call.tree2) :
         call.tree1[k] = call.before[k]

\* an Authoritative merge has run over a node of another value, next to an
\* unclaimed node the source does not hold
C5_Witness ==
  /\ Called /\ call.replace /\ call.calls = 1
  /\ \E k \in (DOMAIN call.before) \cap (DOMAIN call.tree2) :
       call.before[k].value # call.tree2[k]
  /\ \E k \in (DOMAIN call.before) \ (DOMAIN call.tree2) : call.before[k].timestamp = 0

\* C7: an Additive-only merge (replace = false, overwrite = false) of the
\* same source a second time changes nothing: keys, values and timestamps of
\* the destination are those the first merge left.
C7_AdditiveIdempotent ==
  (call.op = "merge_maps" /\ call.calls >= 2 /\ AdditiveOnly) =>
    call.tree1 = call.before

\* the second Additive-only merge has run, the source holding both a key the
\* destination had with another value and a key it had not
C7_Witness ==
  /\ call.op = "merge_maps" /\ call.calls = 2 /\ AdditiveOnly
  /\ \E k \in DOMAIN call.tree2 : call.tree1[k].value # call.tree2[k]
  /\ \E k \in DOMAIN call.tree2 : call.tree1[k] = [value |-> call.tree2[k], timestamp |-> 0]

\* --- build_diff_tree on its own (SpecDiff) ---

Diffed == call.op = "build_diff_tree" /\ call.calls = 1

\* C8: from an empty diff tree, every key of diff(A, B) is a key of B, with
\* B's value, that A lacks or holds with another occupancy; the count returned
\* is the number of keys of B that A lacks; diff(A, A) is empty with count 0.
C8_DiffContents ==
  Diffed =>
    /\ \A k \in DOMAIN call.tree_diff :
         /\ k \in DOMAIN call.tree2
         /\ call.tree_diff[k] = call.tree2[k]
         /\ \/ k \notin DOMAIN call.tree1
            \/ getOccupancy(call.tree1[k]) # getOccupancy(call.tree2[k])
    /\ call.num_new_nodes = Cardinality((DOMAIN call.tree2) \ (DOMAIN call.tree1))
    /\ (call.tree1 = call.tree2) => (call.tree_diff = EmptyTree /\ call.num_new_nodes = 0)

\* a diff has been built of trees that share a key with the same occupancy
\* under different log-odds, and differ on another key
C8_Witness ==
  /\ Diffed
  /\ \E k \in (DOMAIN call.tree1) \cap (DOMAIN call.tree2) :
       /\ call.tree1[k] # call.tree2[k]
       /\ getOccupancy(call.tree1[k]) = getOccupancy(call.tree2[k])
  /\ call.tree_diff # EmptyTree

\* --- the node (Spec) ---

\* merge() is at the diff neighbors[i].octomaps[j]
AtDiff == pc = "neighbors" /\ i <= Len(neighbors) /\ j <= Len(neighbors[i].octomaps)
\* the step that handles it
DiffStep == AtDiff /\ (j' # j \/ pc' # pc)
\* a sequence recorded for the neighbor of that diff is higher than its own
HigherRecorded ==
  \E r \in Range(seqs[neighbors[i].owner]) : r > neighbors[i].octomaps[j].seq

\* C1: no diff (neighbor, sequence) is merged twice; a diff whose sequence is
\* recorded for its neighbor is skipped (nothing changes), and one whose
\* sequence is not recorded is recorded and, when it decodes, merged.
C1_NoDoubleMerge ==
  \A n \in Owners : \A x, y \in DOMAIN applied[n] :
    x # y => applied[n][x].seq # applied[n][y].seq

C1_SkipOrApply ==
  DiffStep =>
    LET n == neighbors[i].owner
        m == neighbors[i].octomaps[j]
    IN IF m.seq \in Range(seqs[n])
       THEN UNCHANGED <<tree_merged, seqs, applied>>
       ELSE /\ m.seq \in Range(seqs'[n])
            /\ m.valid =>
                 /\ Len(applied'[n]) = Len(applied[n]) + 1
                 /\ applied'[n][Len(applied'[n])].seq = m.seq
                 /\ \A k \in DOMAIN m.data : k \in DOMAIN tree_merged'

C1_AppliedOnce == []C1_NoDoubleMerge /\ [][C1_SkipOrApply]_vars

\* a batch comes again: both sequences of a neighbor are merged, and merge()
\* is at a diff of that neighbor whose sequence is recorded
C1_Witness ==
  /\ AtDiff
  /\ Len(applied[neighbors[i].owner]) = 2
  /\ neighbors[i].octomaps[j].seq \in Range(seqs[neighbors[i].owner])
  /\ \E n \in Owners : n # neighbors[i].owner /\ applied[n] # <<>>

\* C2: the merge_maps call for a neighbor's diff has overwrite = true exactly
\* when no sequence recorded before it for that neighbor is higher (so on first
\* contact), and overwrite = false otherwise.
C2_PolicyByLatest ==
  \A n \in Owners : \A x \in DOMAIN applied[n] :
    /\ x <= Len(seqs[n])
    /\ applied[n][x].seq = seqs[n][x]
    /\ applied[n][x].overwrite <=> (\A y \in 1..(x - 1) : seqs[n][y] <= seqs[n][x])

\* arrival order [1, 0] from the first neighbor: 1 merged Conditional, then 0
\* Additive-only
C2_Witness ==
  applied[1] = <<[seq |-> 1, overwrite |-> TRUE], [seq |-> 0, overwrite |-> FALSE]>>

\* C3: a diff that is applied when a higher sequence of its neighbor is
\* recorded leaves every node the merged map has as it is, value and timestamp.
C3_FillsGapsOnly ==
  (DiffStep /\ neighbors[i].octomaps[j].seq \notin Range(seqs[neighbors[i].owner])
     /\ HigherRecorded) =>
    \A k \in DOMAIN tree_merged :
      k \in DOMAIN tree_merged' /\ tree_merged'[k] = tree_merged[k]

C3_OutOfOrderFillsGaps == [][C3_FillsGapsOnly]_vars

\* merge() has just applied, Additive-only, a diff that holds another value
\* for a node no owner merge has claimed
C3_Witness ==
  /\ pc = "neighbors" /\ i <= Len(neighbors) /\ j > 1
  /\ LET n == neighbors[i].owner
         m == neighbors[i].octomaps[j - 1]
     IN /\ applied[n] # <<>>
        /\ applied[n][Len(applied[n])] = [seq |-> m.seq, overwrite |-> FALSE]
        /\ \E k \in DOMAIN m.data :
             tree_merged[k].timestamp = 0 /\ tree_merged[k].value # m.data[k]

\* C6: no step removes a key from the merged map.
C6_KeysOnlyGrow == [][(DOMAIN tree_merged) \subseteq (DOMAIN tree_merged')]_vars

\* the merged map holds every key, after an own diff and a neighbor's diff
\* were merged
C6_Witness ==
  /\ DOMAIN tree_merged = Keys
  /\ num_diffs >= 1
  /\ \E n \in Owners : applied[n] # <<>>

\* the keys of current that baseline lacks or holds with another occupancy
Changed(baseline, current) ==
  {k \in DOMAIN current :
     k \notin DOMAIN baseline \/ getOccupancy(baseline[k]) # getOccupancy(current[k])}

\* C9: in a cycle that gets past the decode of the own map: if the number of
\* keys of the working map that the baseline lacks is above the threshold, the
\* baseline becomes the working map, the diff is appended and published with
\* the new count, and the merged map holds the diff's nodes with timestamp 1;
\* else baseline, merged map, diff array, count and publications are unchanged.
C9_Threshold ==
  (pc = "spin" /\ pc' = "neighbors") =>
    LET working == myMap.data
        newNodeCount == Cardinality((DOMAIN working) \ (DOMAIN tree_old))
    IN IF newNodeCount > map_thresh
       THEN /\ tree_old' = working
            /\ num_diffs' = num_diffs + 1
            /\ Len(mapdiffs'.octomaps) = Len(mapdiffs.octomaps) + 1
            /\ LET diff == mapdiffs'.octomaps[Len(mapdiffs'.octomaps)].data
               IN /\ diff = [k \in Changed(tree_old, working) |-> working[k]]
                  /\ \A k \in DOMAIN diff :
                       tree_merged'[k] = [value |-> diff[k], timestamp |-> 1]
            /\ pub_mapdiffs' = <<mapdiffs'>>
            /\ pub_size' = <<num_diffs'>>
       ELSE UNCHANGED <<tree_old, tree_merged, num_diffs, mapdiffs, pub_mapdiffs, pub_size>>

C9_PublishIffAboveThreshold == [][C9_Threshold]_vars

\* after one published diff, a cycle has just run on an own map that changes
\* values of the baseline's keys only: nothing was committed
C9_Witness ==
  /\ pc = "neighbors" /\ i = 1 /\ j = 1
  /\ ~myMapNew /\ ~otherMapsNew
  /\ num_diffs = 1
  /\ myMap.valid
  /\ DOMAIN myMap.data = DOMAIN tree_old
  /\ myMap.data # tree_old

\* C10: the outbound array grows at its end only; its entry x (from 0) has
\* sequence x; its count field, its length and the last count published equal
\* the number of diffs published, and the array published last is the array.
C10_Counts ==
  /\ mapdiffs.num_octomaps = num_diffs
  /\ Len(mapdiffs.octomaps) = num_diffs
  /\ \A x \in DOMAIN mapdiffs.octomaps : mapdiffs.octomaps[x].seq = x - 1
  /\ IF num_diffs = 0
     THEN pub_size = <<>> /\ pub_mapdiffs = <<>>
     ELSE pub_size = <<num_diffs>> /\ pub_mapdiffs = <<mapdiffs>>

C10_AppendOnly ==
  /\ Len(mapdiffs'.octomaps) >= Len(mapdiffs.octomaps)
  /\ \A x \in DOMAIN mapdiffs.octomaps : mapdiffs'.octomaps[x] = mapdiffs.octomaps[x]

C10_OutboundBatch == []C10_Counts /\ [][C10_AppendOnly]_vars

\* two diffs are published
C10_Witness ==
  /\ num_diffs = 2
  /\ pub_size = <<2>>
  /\ mapdiffs.octomaps[2].data # mapdiffs.octomaps[1].data

\* --- the cycle (Spec) ---

\* a message arrives: a stored message is replaced or a flag is raised
Arrival ==
  \/ myMap' # myMap
  \/ neighbors' # neighbors
  \/ ~myMapNew /\ myMapNew'
  \/ ~otherMapsNew /\ otherMapsNew'

\* the step of main() that finds a flag set, clears both and enters merge()
StartStep ==
  /\ pc = "spin"
  /\ myMapNew \/ otherMapsNew
  /\ ~myMapNew' /\ ~otherMapsNew'

\* C11: the step that handles a neighbor diff that cannot be decoded skips it:
\* the merged map is as it was and merge() goes on to the next diff of the
\* batch (and from there to the other neighbors and the publication).
C11_Skip ==
  (DiffStep /\ ~neighbors[i].octomaps[j].valid
     /\ neighbors[i].octomaps[j].seq \notin Range(seqs[neighbors[i].owner])) =>
    /\ pc' = "neighbors"
    /\ j' = j + 1
    /\ tree_merged' = tree_merged

C11_SkipsUndecodable == [][C11_Skip]_vars

\* C12: on a base, the cycle that finds the own map undecodable goes on to
\* the neighbor loops, with baseline, outbound array and count as they were.
C12_Continue ==
  (StartStep /\ type = "base" /\ ~myMap.valid) =>
    /\ pc' = "neighbors"
    /\ UNCHANGED <<tree_old, mapdiffs, num_diffs, pub_mapdiffs, pub_size>>

C12_BaseContinues == [][C12_Continue]_vars

\* C13: on a robot, the cycle that finds the own map undecodable returns at
\* once: nothing is published, and baseline, merged map, recorded sequences,
\* outbound array and count are unchanged, so the diffs of the stored
\* neighbors message stay unrecorded.
C13_Abort ==
  (StartStep /\ type = "robot" /\ ~myMap.valid) =>
    /\ pc' = "spin"
    /\ UNCHANGED <<tree_old, tree_merged, seqs, applied, mapdiffs, num_diffs,
                   pub_mapdiffs, pub_size, pub_merged, neighbors>>

C13_RobotAborts == [][C13_Abort]_vars

\* a robot is back in the main loop after a cycle on an undecodable own map,
\* nothing published, the first diff of the stored neighbors message unrecorded
C13_Witness ==
  /\ pc = "spin" /\ type = "robot"
  /\ ~myMapNew /\ ~otherMapsNew
  /\ ~myMap.valid
  /\ pub_merged = <<>>
  /\ neighbors # <<>>
  /\ neighbors[1].octomaps[1].seq \notin Range(seqs[neighbors[1].owner])

\* C14: every sequence recorded for a neighbor is the sequence of a diff that
\* was decoded and merged into the merged map.
C14_RecordedWasMerged ==
  \A n \in Owners : \A s \in Range(seqs[n]) :
    /\ NeighborDiff(n, s).valid
    /\ \E x \in DOMAIN applied[n] : applied[n][x].seq = s
    /\ \A k \in DOMAIN NeighborDiff(n, s).data : k \in DOMAIN tree_merged

\* C15: a step of the main loop that is not an arrival starts a cycle: one of
\* the flags was set, and both are clear after it; so with both flags clear
\* nothing but an arrival changes the state.
C15_Trigger ==
  (pc = "spin" /\ ~Arrival) =>
    /\ myMapNew \/ otherMapsNew
    /\ ~myMapNew' /\ ~otherMapsNew'

C15_CycleOnlyOnNewData == [][C15_Trigger]_vars

\* the main loop ticks with both flags clear, after a cycle on a decoded own
\* map and a neighbors message has run to its end
C15_Witness ==
  /\ pc = "spin"
  /\ ~myMapNew /\ ~otherMapsNew
  /\ myMap.valid
  /\ neighbors # <<>>
  /\ pub_merged # <<>>

\* C16: nothing stops the loop: the process is in the main loop or inside a
\* cycle that goes on, whatever was delivered and however it decoded.
C16_LoopNeverStopped == pc \in {"spin", "neighbors"}

\* C17: an arrival happens in the main loop between cycles only, and leaves
\* merged map, baseline, recorded sequences and outbound array (with count
\* and publications) as they are.
C17_Arrival ==
  Arrival =>
    /\ pc = "spin" /\ pc' = "spin"
    /\ UNCHANGED <<tree_merged, tree_old, tree_diff, seqs, applied, mapdiffs, num_diffs,
                   pub_mapdiffs, pub_size, pub_merged, i, j>>

C17_ArrivalOnlyStores == [][C17_Arrival]_vars

\* both messages have arrived anew after cycles that published a diff and
\* recorded a neighbor's sequence
C17_Witness ==
  /\ pc = "spin"
  /\ myMapNew /\ otherMapsNew
  /\ myMap.valid /\ myMap.data # tree_old
  /\ num_diffs >= 1
  /\ \E n \in Owners : seqs[n] # <<>>
  /\ neighbors # <<>>

\* C18: the working diff tree is empty whenever merge() is not building it,
\* and a diff that is published holds only keys of the working map that the
\* baseline of this cycle lacks or holds with another occupancy.
C18_Empty == tree_diff = EmptyTree

C18_NoRetention ==
  (num_diffs' # num_diffs) =>
    DOMAIN mapdiffs'.octomaps[Len(mapdiffs'.octomaps)].data
      \subseteq Changed(tree_old, myMap.data)

C18_DiffTreeCleared == []C18_Empty /\ [][C18_NoRetention]_vars

\* after a published diff, a cycle has built a diff that is not empty, has
\* not met the threshold, and has discarded it
C18_Witness ==
  /\ pc = "neighbors" /\ i = 1 /\ j = 1
  /\ num_diffs >= 1
  /\ myMap.valid
  /\ Changed(tree_old, myMap.data) # {}
  /\ tree_diff = EmptyTree

\* C19: every key of the baseline is in the merged map with the baseline's
\* occupancy and timestamp 1, and the step that handles a neighbor's diff
\* leaves the merged map's node at every such key as it is.
C19_BaselineClaimed ==
  \A k \in DOMAIN tree_old :
    /\ k \in DOMAIN tree_merged
    /\ getOccupancy(tree_merged[k].value) = getOccupancy(tree_old[k])
    /\ tree_merged[k].timestamp = 1

C19_NeighborKeeps ==
  DiffStep => \A k \in DOMAIN tree_old : tree_merged'[k] = tree_merged[k]

C20_Reread ==
  (StartStep /\ ~myMapNew /\ myMap.valid /\ myMap.data = tree_old /\ num_diffs >= 1) =>
    /\ build_diff_tree(tree_old, myMap.data, tree_diff).tree_diff = EmptyTree
    /\ pc' = "neighbors"
    /\ UNCHANGED <<num_diffs, mapdiffs, pub_mapdiffs, pub_size, tree_old>>

C20_RereadPublishesNothing == [][C20_Reread]_vars

\* the main loop is at the flag test with the neighbors flag alone set, the
\* stored own map being the baseline that the one published diff committed,
\* and the stored neighbors message holding a diff not yet recorded
C20_Witness ==
  /\ pc = "spin"
  /\ ~myMapNew /\ otherMapsNew
  /\ myMap.valid /\ myMap.data = tree_old
  /\ num_diffs = 1 /\ pub_size = <<1>>
  /\ pub_merged # <<>>
  /\ neighbors # <<>>
  /\ neighbors[1].octomaps[1].seq \notin Range(seqs[neighbors[1].owner])

====
